---- MODULE Spec2Model ----
(***************************************************************************)
(* MedDocReader: the document-processing service, its repositories and the *)
(* review route, as a state machine over the relational store.             *)
(*                                                                         *)
(* Conventions.  A Python Optional / SQL NULL is a sequence of length <= 1:*)
(* None is <<>> and a present value x is <<x>>.  A text is a sequence of   *)
(* tokens; the token "sp" is a whitespace character.  A confidence is an   *)
(* integer number of hundredths (0.75 is 75).  Every statement that goes   *)
(* to the store (db_manager.execute_query / execute_update) is one step    *)
(* that either commits or raises.  No operation reads processing_logs, so  *)
(* a create_log statement is a step that commits or raises and the rows of *)
(* that table are not kept.                                                *)
(***************************************************************************)
EXTENDS Integers, Sequences, FiniteSets, TLC

VARIABLES
  documents,        \* table documents: row i has id i
  patients,         \* table patients: rows in insertion order
  pc,               \* position of the operation in progress ("idle" when none)
  file,             \* process_document: the file at file_path
  document_id,      \* local document_id (Unbound before its first assignment)
  extracted_text,   \* process_document: local extracted_text
  patient_data,     \* local patient_data (process_document / update_patient_data)
  error_message,    \* process_document: local error_message of the except branch
  status_writes,    \* statuses this invocation has written to its document so far
  write_calls,      \* update_patient_data: store writes it has executed so far
  pre_status,       \* update_patient_data: stored status of the document at call time
  pre_fields,       \* update_patient_data: stored field set of the document at call time
  via_route,        \* update_patient_data: TRUE when called by update_reviewed_data
  folder_path,      \* process_batch: the folder at folder_path
  reviewers,        \* update_patient_data calls of other request handlers
  batch,            \* process_batch: supported_files still to process
  results,          \* process_batch: results so far
  faulted,          \* a store statement of this invocation has raised
  result            \* what the finished operation handed to its caller

vars == <<documents, patients, pc, file, document_id,
          extracted_text, patient_data, error_message, status_writes,
          write_calls, pre_status, pre_fields, via_route, folder_path,
          reviewers, batch, results, faulted, result>>

(***************************************************************************)
(* Bounds                                                                  *)
(***************************************************************************)
MaxDocs == 2

(***************************************************************************)
(* Optional values                                                         *)
(***************************************************************************)
None == <<>>

Some(x) == <<x>>

(***************************************************************************)
(* models/__init__.py                                                      *)
(***************************************************************************)
PENDING == "pending"

PROCESSING == "processing"

COMPLETED == "completed"

FAILED == "failed"

NEEDS_REVIEW == "needs_review"

ProcessingStatus == {PENDING, PROCESSING, COMPLETED, FAILED, NEEDS_REVIEW}

ReviewThreshold == 75

FieldNames == {"name", "date_of_birth", "insurance_id", "address", "phone", "email"}

ExtractedField(value, confidence, raw_text) ==
  [value |-> value, confidence |-> confidence, raw_text |-> raw_text]

\* ExtractedField(): value None, confidence 0.0, raw_text None
DefaultField == ExtractedField(None, 0, None)

\* PatientData(): six default fields
EmptyPatientData == [f \in FieldNames |-> DefaultField]

\* class ConfidenceLevel
HIGH == "high"

MEDIUM == "medium"

LOW == "low"

ConfidenceLevel == {HIGH, MEDIUM, LOW}

\* the two cut-offs of confidence_level, in hundredths
HighThreshold == 80

MediumThreshold == 50

\* confidence_level with > in place of >= at the upper cut-off
confidence_level_exclusive(fld) ==
  IF fld.confidence > HighThreshold THEN HIGH
  ELSE IF fld.confidence >= MediumThreshold THEN MEDIUM
  ELSE LOW

\* ExtractedField.confidence_level
confidence_level(fld) ==
  IF fld.confidence >= HighThreshold THEN HIGH
  ELSE IF fld.confidence >= MediumThreshold THEN MEDIUM
  ELSE LOW

\* needs_review with the cut-off of confidence_level in place of its own
needs_review_below_high(fld) == fld.confidence < HighThreshold

\* ExtractedField.needs_review
needs_review(fld) == fld.confidence < ReviewThreshold

\* get_low_confidence_fields leaving out the fields that were not extracted
\* (confidence 0)
get_low_confidence_fields_extracted_only(pd) ==
  {f \in FieldNames : pd[f].confidence > 0 /\ needs_review(pd[f])}

\* PatientData.get_low_confidence_fields, as the set of the returned keys
get_low_confidence_fields(pd) == {f \in FieldNames : needs_review(pd[f])}

\* the greatest common divisor of two naturals, not both 0
RECURSIVE GCD(_, _)
GCD(a, b) == IF b = 0 THEN a ELSE GCD(b, a % b)

\* the quotient total / n of Python, kept exact: a fraction of hundredths in
\* lowest terms
Quotient(total, n) ==
  [num |-> total \div GCD(total, n), den |-> n \div GCD(total, n)]

\* the float 0.0
Zero == [num |-> 0, den |-> 1]

\* sum(valid_confidences) for the fields named in S
RECURSIVE SumConfidences(_, _)
SumConfidences(pd, S) ==
  IF S = {} THEN 0
  ELSE LET f == CHOOSE g \in S : TRUE
       IN pd[f].confidence + SumConfidences(pd, S \ {f})

\* valid_confidences = [c for c in fields if c > 0], by field name
valid_confidences(pd) == {f \in FieldNames : pd[f].confidence > 0}

\* ProcessingResult.overall_confidence of a result whose extracted_data is
\* data (None or a PatientData)
overall_confidence(data) ==
  IF data = None THEN Zero
  ELSE IF valid_confidences(data[1]) = {} THEN Zero
  ELSE Quotient(SumConfidences(data[1], valid_confidences(data[1])),
                Cardinality(valid_confidences(data[1])))

(***************************************************************************)
(* Texts.  "sp" is a whitespace character, "w" a word no heuristic matches,*)
(* p1/p2 spans the NLP engine labels PERSON, d1/d2 spans it labels DATE,   *)
(* "ins", "phone", "email" spans the three regular-expression heuristics   *)
(* match.                                                                  *)
(***************************************************************************)
Tokens == {"sp", "w", "p1", "p2", "d1", "d2", "ins", "phone", "email"}

RECURSIVE Join(_)
\* " ".join(text_lines)
Join(text_lines) ==
  IF text_lines = <<>> THEN <<>>
  ELSE IF Len(text_lines) = 1 THEN Head(text_lines)
  ELSE Head(text_lines) \o <<"sp">> \o Join(Tail(text_lines))

RECURSIVE lstrip(_)
lstrip(text) ==
  IF text # <<>> /\ Head(text) = "sp" THEN lstrip(Tail(text)) ELSE text

RECURSIVE rstrip(_)
rstrip(text) ==
  IF text # <<>> /\ text[Len(text)] = "sp"
  THEN rstrip(SubSeq(text, 1, Len(text) - 1))
  ELSE text

\* str.strip()
strip(text) == rstrip(lstrip(text))

(***************************************************************************)
(* The file at file_path and what the OCR provider does with it.           *)
(***************************************************************************)
OcrFails == [ok |-> FALSE, lines |-> <<>>]

OcrLines(lines) == [ok |-> TRUE, lines |-> lines]

OcrOutcomes ==
  { OcrFails,
    OcrLines(<<>>),
    OcrLines(<< <<>>, <<>> >>),
    OcrLines(<< <<"p1">>, <<"sp", "email">> >>) }

MissingFile == [exists |-> FALSE, ocr |-> OcrFails]

Files == {MissingFile} \cup {[exists |-> TRUE, ocr |-> o] : o \in OcrOutcomes}

NoFile == MissingFile

(***************************************************************************)
(* services/__init__.py: AzureFormRecognizerService                        *)
(***************************************************************************)
\* open() or the analysis raising is caught and gives None; otherwise the
\* lines of all pages joined by one space
extract_text_from_document(f) ==
  IF f.exists /\ f.ocr.ok THEN Some(Join(f.ocr.lines)) ELSE None

(***************************************************************************)
(* services/__init__.py: NLPService                                        *)
(***************************************************************************)
NameConfidence == 80

DateConfidence == 70

InsuranceConfidence == 60

PhoneConfidence == 70

EmailConfidence == 90

\* ent.label_ of a span
Label(tok) ==
  IF tok \in {"p1", "p2"} THEN "PERSON"
  ELSE IF tok \in {"d1", "d2"} THEN "DATE"
  ELSE "O"

\* doc.ents: the labelled spans in text order
ents(text) == SelectSeq(text, LAMBDA tok : Label(tok) \in {"PERSON", "DATE"})

\* NLPService._clean_date: the span without the characters the pattern removes
_clean_date(date_text) == IF date_text = "d1" THEN "d1-clean" ELSE "d2-clean"

RECURSIVE EntityLoop(_, _)
\* for ent in doc.ents: ... (each PERSON / DATE entity assigns its field)
EntityLoop(es, pd) ==
  IF es = <<>> THEN pd
  ELSE LET ent == Head(es)
           next == IF Label(ent) = "PERSON"
                   THEN [pd EXCEPT !["name"] =
                           ExtractedField(Some(ent), NameConfidence, Some(ent))]
                   ELSE [pd EXCEPT !["date_of_birth"] =
                           ExtractedField(Some(_clean_date(ent)), DateConfidence,
                                          Some(ent))]
       IN EntityLoop(Tail(es), next)

HasToken(text, tok) == \E i \in 1..Len(text) : text[i] = tok

\* NLPService._extract_insurance_info: the captured token of the first match
_extract_insurance_info(text) ==
  IF HasToken(text, "ins") THEN Some("ins-id") ELSE None

\* NLPService._extract_phone: the match reformatted as (AAA) BBB-CCCC
_extract_phone(text) ==
  IF HasToken(text, "phone") THEN Some("(AAA) BBB-CCCC") ELSE None

\* NLPService._extract_email: the matched string itself
_extract_email(text) ==
  IF HasToken(text, "email") THEN Some("email") ELSE None

\* WithFound building the found field on a fresh PatientData(), which drops
\* the fields assigned before it
WithFound_on_fresh_data(pd, f, found, confidence) ==
  IF found # None
  THEN [EmptyPatientData EXCEPT ![f] = ExtractedField(found, confidence, found)]
  ELSE pd

\* lines 90-112: if <found>: patient_data.<f> = ExtractedField(found, c, found)
WithFound(pd, f, found, confidence) ==
  IF found # None
  THEN [pd EXCEPT ![f] = ExtractedField(found, confidence, found)]
  ELSE pd

\* extract_patient_data whose except branch returns the fields assigned before
\* the fault (here: those of the entity loop)
extract_patient_data_partial_on_raise(text, nlp_raises) ==
  IF nlp_raises THEN EntityLoop(ents(text), EmptyPatientData)
  ELSE LET a == EntityLoop(ents(text), EmptyPatientData)
           b == WithFound(a, "insurance_id", _extract_insurance_info(text),
                          InsuranceConfidence)
           c == WithFound(b, "phone", _extract_phone(text), PhoneConfidence)
       IN WithFound(c, "email", _extract_email(text), EmailConfidence)

\* NLPService.extract_patient_data; nlp_raises: a step inside the try raises
extract_patient_data(text, nlp_raises) ==
  IF nlp_raises THEN EmptyPatientData
  ELSE LET a == EntityLoop(ents(text), EmptyPatientData)
           b == WithFound(a, "insurance_id", _extract_insurance_info(text),
                          InsuranceConfidence)
           c == WithFound(b, "phone", _extract_phone(text), PhoneConfidence)
       IN WithFound(c, "email", _extract_email(text), EmailConfidence)

(***************************************************************************)
(* database/repositories/__init__.py, as functions of the tables.          *)
(* A statement that raises is rolled back (DatabaseManager.get_cursor) and *)
(* leaves the tables as they were.                                         *)
(***************************************************************************)
\* the row DocumentRepository.create inserts for _create_document_from_file's
\* Document: status pending, extracted_text "", processing_errors []
NewDocumentRow ==
  [processing_status |-> PENDING,
   extracted_text |-> Some(<<>>),
   processing_errors |-> Some(<<>>)]

\* DocumentRepository.create: INSERT ... RETURNING id
DocumentRepository_create(docs) == Append(docs, NewDocumentRow)

\* update_status writing the Document default status for a failure
update_status_default_on_failure(docs, id, status, text, errors) ==
  [i \in 1..Len(docs) |->
     IF i = id
     THEN [processing_status |-> IF status = FAILED THEN PENDING ELSE status,
           extracted_text |-> text,
           processing_errors |-> errors]
     ELSE docs[i]]

\* DocumentRepository.update_status: every call sets the three columns, the
\* omitted arguments as NULL
update_status(docs, id, status, text, errors) ==
  [i \in 1..Len(docs) |->
     IF i = id
     THEN [processing_status |-> status,
           extracted_text |-> text,
           processing_errors |-> errors]
     ELSE docs[i]]

\* the columns PatientRepository writes for one field
StoredField(fld) == [value |-> fld.value, confidence |-> fld.confidence]

PatientRow(id, pd) ==
  [document_id |-> id, fields |-> [f \in FieldNames |-> StoredField(pd[f])]]

\* PatientRepository.create: INSERT INTO patients
PatientRepository_create(rows, id, pd) == Append(rows, PatientRow(id, pd))

\* PatientRepository.update as two statements' worth of columns, of which
\* only the required fields are written
PatientRepository_update_required_only(rows, id, pd) ==
  [i \in 1..Len(rows) |->
     IF rows[i].document_id = id
     THEN [rows[i] EXCEPT
             !.fields = [f \in FieldNames |->
                           IF f \in {"name", "date_of_birth", "insurance_id"}
                           THEN StoredField(pd[f])
                           ELSE rows[i].fields[f]]]
     ELSE rows[i]]

\* PatientRepository.update: UPDATE patients ... WHERE document_id = id
PatientRepository_update(rows, id, pd) ==
  [i \in 1..Len(rows) |->
     IF rows[i].document_id = id THEN PatientRow(id, pd) ELSE rows[i]]

\* cursor.rowcount of that UPDATE
affected_rows(rows, id) ==
  Cardinality({i \in 1..Len(rows) : rows[i].document_id = id})

\* PatientRepository._row_to_patient_data
_row_to_patient_data(row) ==
  [f \in FieldNames |->
     ExtractedField(row.fields[f].value, row.fields[f].confidence, None)]

\* PatientRepository.get_by_document_id: the first row of the document, or None
get_by_document_id(rows, id) ==
  IF affected_rows(rows, id) = 0 THEN None
  ELSE LET i == CHOOSE k \in 1..Len(rows) :
                  /\ rows[k].document_id = id
                  /\ \A j \in 1..(k - 1) : rows[j].document_id # id
       IN Some(_row_to_patient_data(rows[i]))

SqlReviewThreshold == 75

\* the WHERE clause of get_needing_review on one joined row; p is None when
\* the LEFT JOIN found no patient row (a comparison with NULL is not true)
NeedingReviewWhere(d, p) ==
  \/ d.processing_status = NEEDS_REVIEW
  \/ /\ p # None
     /\ \/ p[1].fields["name"].confidence < SqlReviewThreshold
        \/ p[1].fields["date_of_birth"].confidence < SqlReviewThreshold
        \/ p[1].fields["insurance_id"].confidence < SqlReviewThreshold

\* the joined rows of document id that pass the WHERE clause, as ids
NeedingReviewOf(docs, rows, id) ==
  LET joined == SelectSeq(rows, LAMBDA r : r.document_id = id)
  IN IF joined = <<>>
     THEN IF NeedingReviewWhere(docs[id], None) THEN <<id>> ELSE <<>>
     ELSE [k \in 1..Len(SelectSeq(joined,
                          LAMBDA r : NeedingReviewWhere(docs[id], Some(r))))
             |-> id]

RECURSIVE NeedingReviewUpTo(_, _, _)
NeedingReviewUpTo(docs, rows, n) ==
  IF n = 0 THEN <<>>
  ELSE NeedingReviewOf(docs, rows, n) \o NeedingReviewUpTo(docs, rows, n - 1)

\* DocumentRepository.get_needing_review: the ids of the returned documents,
\* most recent upload first
get_needing_review(docs, rows) == NeedingReviewUpTo(docs, rows, Len(docs))

(***************************************************************************)
(* services/__init__.py: DocumentProcessingService                         *)
(***************************************************************************)
\* a local variable is Unbound before its first assignment and <<v>> after it
Unbound == <<>>

NoResult == [raised |-> FALSE]

\* folder_path outside process_batch: no folder
NoFolder == [exists |-> FALSE, entries |-> <<>>]

NoTextMessage == "No text extracted from document"

StoreFault == "database error"

StatFault == "No such file or directory"

\* error_message = f"Error processing document: {str(e)}"
ErrorMessage(e) == [prefix |-> "Error processing document: ", detail |-> e]

\* the no-text test without the strip(): not extracted_text
NoTextExtracted_unstripped(text) ==
  \/ text = None
  \/ text = Some(<<>>)

\* not extracted_text or extracted_text.strip() == ""
NoTextExtracted(text) ==
  \/ text = None
  \/ text = Some(<<>>)
  \/ strip(text[1]) = <<>>

\* the final status decided without looking at the field confidences
FinalStatus_always_completed(pd) == COMPLETED

\* the final status process_document decides from the extracted field set
FinalStatus(pd) ==
  IF get_low_confidence_fields(pd) # {} THEN NEEDS_REVIEW ELSE COMPLETED

\* an exception raised inside the try block of process_document
Raise(e) ==
  /\ pc' = "pd_except"
  /\ error_message' = Some(ErrorMessage(e))
  /\ faulted' = (faulted \/ e = StoreFault)

\* _calculate_overall_confidence with the zero confidences left in the mean
_calculate_overall_confidence_zeros_counted(pd) ==
  Quotient(SumConfidences(pd, FieldNames), Cardinality(FieldNames))

\* lines 328-341: the mean of the positive confidences, 0.0 when there is none
_calculate_overall_confidence(pd) ==
  IF valid_confidences(pd) = {} THEN Zero
  ELSE Quotient(SumConfidences(pd, valid_confidences(pd)),
                Cardinality(valid_confidences(pd)))

\* ProcessingResult(...); confidence_score defaults to 0.0, processing_time
\* is left out
ProcessDocumentResult(id, success, data, errors, confidence_score) ==
  [raised |-> FALSE, document_id |-> id, success |-> success,
   extracted_data |-> data, errors |-> errors,
   confidence_score |-> confidence_score]

Raised(exc) == [raised |-> TRUE, exception |-> exc]

Init ==
  /\ documents = <<>>
  /\ patients = <<>>
  /\ pc = "idle"
  /\ file = NoFile
  /\ document_id = Unbound
  /\ extracted_text = Unbound
  /\ patient_data = Unbound
  /\ error_message = Unbound
  /\ status_writes = <<>>
  /\ write_calls = <<>>
  /\ pre_status = None
  /\ pre_fields = None
  /\ via_route = FALSE
  /\ folder_path = NoFolder
  /\ reviewers = <<>>
  /\ batch = None
  /\ results = <<>>
  /\ faulted = FALSE
  /\ result = NoResult

\* the locals of a fresh invocation of process_document
EnterProcessDocument(f) ==
  /\ pc' = "pd_stat"
  /\ file' = f
  /\ document_id' = Unbound
  /\ extracted_text' = Unbound
  /\ patient_data' = Unbound
  /\ error_message' = Unbound
  /\ status_writes' = <<>>
  /\ write_calls' = <<>>
  /\ faulted' = FALSE
  /\ result' = NoResult

\* a client (the upload route) calls process_document(file_path)
ProcessDocumentCall ==
  /\ pc = "idle"
  /\ Len(documents) < MaxDocs
  /\ \E f \in Files : EnterProcessDocument(f)
  /\ UNCHANGED <<documents, patients, pre_status, pre_fields, via_route,
                 folder_path, reviewers, batch, results>>

\* line 177: _create_document_from_file; path.stat() raises for a missing file
CreateDocumentFromFile ==
  /\ pc = "pd_stat"
  /\ IF file.exists
     THEN pc' = "pd_create" /\ UNCHANGED <<error_message, faulted>>
     ELSE Raise(StatFault)
  /\ UNCHANGED <<documents, patients, file, document_id, extracted_text,
                 patient_data, status_writes, write_calls, pre_status,
                 pre_fields, via_route, folder_path, reviewers, batch,
                 results, result>>

\* lines 178-179: document_id = self.document_repo.create(document)
CreateDocument ==
  /\ pc = "pd_create"
  /\ \/ /\ documents' = DocumentRepository_create(documents)
        /\ document_id' = Some(Len(documents) + 1)
        /\ pc' = "pd_status_processing"
        /\ UNCHANGED <<error_message, faulted>>
     \/ /\ Raise(StoreFault)
        /\ UNCHANGED <<documents, document_id>>
  /\ UNCHANGED <<patients, file, extracted_text, patient_data, status_writes,
                 pre_status, pre_fields, via_route, folder_path, reviewers,
                 batch, results, result, write_calls>>

\* line 182: update_status(document_id, PROCESSING)
StatusProcessing ==
  /\ pc = "pd_status_processing"
  /\ \/ /\ documents' = update_status(documents, document_id[1], PROCESSING,
                                      None, None)
        /\ status_writes' = Append(status_writes, PROCESSING)
        /\ pc' = "pd_log_processing"
        /\ UNCHANGED <<error_message, faulted>>
     \/ /\ Raise(StoreFault)
        /\ UNCHANGED <<documents, status_writes>>
  /\ UNCHANGED <<patients, file, document_id, extracted_text, patient_data,
                 pre_status, pre_fields, via_route, folder_path, reviewers,
                 batch, results, result, write_calls>>

\* line 183: create_log(document_id, "processing", ...)
LogProcessing ==
  /\ pc = "pd_log_processing"
  /\ \/ /\ pc' = "pd_extract_text"
        /\ UNCHANGED <<error_message, faulted>>
     \/ Raise(StoreFault)
  /\ UNCHANGED <<documents, patients, file, document_id, extracted_text,
                 patient_data, status_writes, pre_status, pre_fields,
                 via_route, folder_path, reviewers, batch, results, result,
                 write_calls>>

\* lines 186-188: the provider call and the no-text test
ExtractText ==
  /\ pc = "pd_extract_text"
  /\ extracted_text' = Some(extract_text_from_document(file))
  /\ IF NoTextExtracted(extracted_text'[1])
     THEN Raise(NoTextMessage)
     ELSE pc' = "pd_store_text" /\ UNCHANGED <<error_message, faulted>>
  /\ UNCHANGED <<documents, patients, file, document_id, patient_data,
                 status_writes, write_calls, pre_status, pre_fields,
                 via_route, folder_path, reviewers, batch, results, result>>

\* lines 191-195: update_status(document_id, PROCESSING, extracted_text=...)
StoreText ==
  /\ pc = "pd_store_text"
  /\ \/ /\ documents' = update_status(documents, document_id[1], PROCESSING,
                                      extracted_text[1], None)
        /\ status_writes' = Append(status_writes, PROCESSING)
        /\ pc' = "pd_nlp"
        /\ UNCHANGED <<error_message, faulted>>
     \/ /\ Raise(StoreFault)
        /\ UNCHANGED <<documents, status_writes>>
  /\ UNCHANGED <<patients, file, document_id, extracted_text, patient_data,
                 pre_status, pre_fields, via_route, folder_path, reviewers,
                 batch, results, result, write_calls>>

\* ExtractPatientData with an NLP service that lets its fault out: the fault
\* is caught by the except branch of process_document
ExtractPatientData_fault_propagates ==
  /\ pc = "pd_nlp"
  /\ \E nlp_raises \in BOOLEAN :
       IF nlp_raises
       THEN Raise("nlp error") /\ UNCHANGED patient_data
       ELSE /\ patient_data' =
                 Some(extract_patient_data(extracted_text[1][1], FALSE))
            /\ pc' = "pd_patient_create"
            /\ UNCHANGED <<error_message, faulted>>
  /\ UNCHANGED <<documents, patients, file, document_id, extracted_text,
                 status_writes, write_calls, pre_status, pre_fields,
                 via_route, folder_path, reviewers, batch, results, result>>

\* line 198: patient_data = self.nlp_service.extract_patient_data(extracted_text)
ExtractPatientData ==
  /\ pc = "pd_nlp"
  /\ \E nlp_raises \in BOOLEAN :
       patient_data' = Some(extract_patient_data(extracted_text[1][1], nlp_raises))
  /\ pc' = "pd_patient_create"
  /\ UNCHANGED <<documents, patients, file, document_id, extracted_text,
                 error_message, status_writes, write_calls, pre_status,
                 pre_fields, via_route, folder_path, reviewers, batch,
                 results, result, faulted>>

\* line 201: self.patient_repo.create(document_id, patient_data)
SavePatientData ==
  /\ pc = "pd_patient_create"
  /\ \/ /\ patients' = PatientRepository_create(patients, document_id[1],
                                                patient_data[1])
        /\ pc' = "pd_final_status"
        /\ UNCHANGED <<error_message, faulted>>
     \/ /\ Raise(StoreFault)
        /\ UNCHANGED patients
  /\ UNCHANGED <<documents, file, document_id, extracted_text, patient_data,
                 status_writes, pre_status, pre_fields, via_route,
                 folder_path, reviewers, batch, results, result, write_calls>>

\* lines 203-215: decide final_status and write it
StatusFinal ==
  /\ pc = "pd_final_status"
  /\ \/ /\ documents' = update_status(documents, document_id[1],
                                      FinalStatus(patient_data[1]),
                                      extracted_text[1], None)
        /\ status_writes' = Append(status_writes, FinalStatus(patient_data[1]))
        /\ pc' = "pd_final_log"
        /\ UNCHANGED <<error_message, faulted>>
     \/ /\ Raise(StoreFault)
        /\ UNCHANGED <<documents, status_writes>>
  /\ UNCHANGED <<patients, file, document_id, extracted_text, patient_data,
                 pre_status, pre_fields, via_route, folder_path, reviewers,
                 batch, results, result, write_calls>>

\* lines 216-230: the final log entry, then return ProcessingResult(success=True)
LogFinal ==
  /\ pc = "pd_final_log"
  /\ \/ /\ result' = ProcessDocumentResult(document_id[1], TRUE, patient_data,
                     <<>>, _calculate_overall_confidence(patient_data[1]))
        /\ pc' = "pd_returned"
        /\ UNCHANGED <<error_message, faulted>>
     \/ /\ Raise(StoreFault)
        /\ UNCHANGED result
  /\ UNCHANGED <<documents, patients, file, document_id, extracted_text,
                 patient_data, status_writes, pre_status, pre_fields,
                 via_route, folder_path, reviewers, batch, results,
                 write_calls>>

\* lines 232-237: the except branch up to `if document_id:`; the local is
\* unbound when the fault came before line 178 assigned it
Except ==
  /\ pc = "pd_except"
  /\ IF document_id = Unbound
     THEN pc' = "pd_raised" /\ result' = Raised("UnboundLocalError")
     ELSE pc' = "pd_status_failed" /\ UNCHANGED result
  /\ UNCHANGED <<documents, patients, file, document_id, extracted_text,
                 patient_data, error_message, status_writes, write_calls,
                 pre_status, pre_fields, via_route, folder_path, reviewers,
                 batch, results, faulted>>

\* lines 238-242: update_status(document_id, FAILED, errors=[error_message]);
\* a fault here is outside any try block
StatusFailed ==
  /\ pc = "pd_status_failed"
  /\ \/ /\ documents' = update_status(documents, document_id[1], FAILED, None,
                                      Some(<<error_message[1]>>))
        /\ status_writes' = Append(status_writes, FAILED)
        /\ pc' = "pd_log_failed"
        /\ UNCHANGED <<result, faulted>>
     \/ /\ pc' = "pd_raised"
        /\ result' = Raised(StoreFault)
        /\ faulted' = TRUE
        /\ UNCHANGED <<documents, status_writes>>
  /\ UNCHANGED <<patients, file, document_id, extracted_text, patient_data,
                 error_message, pre_status, pre_fields, via_route,
                 folder_path, reviewers, batch, results, write_calls>>

\* lines 243-250: the "failed" log entry, then return ProcessingResult(success=False)
LogFailed ==
  /\ pc = "pd_log_failed"
  /\ \/ /\ result' = ProcessDocumentResult(document_id[1], FALSE, None,
                                           <<error_message[1]>>, Zero)
        /\ pc' = "pd_returned"
        /\ UNCHANGED faulted
     \/ /\ pc' = "pd_raised"
        /\ result' = Raised(StoreFault)
        /\ faulted' = TRUE
  /\ UNCHANGED <<documents, patients, file, document_id, extracted_text,
                 patient_data, error_message, status_writes, pre_status,
                 pre_fields, via_route, folder_path, reviewers, batch,
                 results, write_calls>>

\* the client has the outcome of process_document; the locals go away
ProcessDocumentDone ==
  /\ pc \in {"pd_returned", "pd_raised"}
  /\ batch = None
  /\ pc' = "idle"
  /\ file' = NoFile
  /\ document_id' = Unbound
  /\ extracted_text' = Unbound
  /\ patient_data' = Unbound
  /\ error_message' = Unbound
  /\ status_writes' = <<>>
  /\ write_calls' = <<>>
  /\ faulted' = FALSE
  /\ result' = NoResult
  /\ UNCHANGED <<documents, patients, pre_status, pre_fields, via_route,
                 folder_path, reviewers, batch, results>>

ProcessDocument ==
  \/ CreateDocumentFromFile
  \/ CreateDocument
  \/ StatusProcessing
  \/ LogProcessing
  \/ ExtractText
  \/ StoreText
  \/ ExtractPatientData
  \/ SavePatientData
  \/ StatusFinal
  \/ LogFinal
  \/ Except
  \/ StatusFailed
  \/ LogFailed


(***************************************************************************)
(* update_patient_data and the review route                                *)
(***************************************************************************)
\* a field set a caller of update_patient_data hands in: every confidence 1.0
\* except that of field f
CallerSet(f, c) ==
  [g \in FieldNames |->
     ExtractedField(Some("corrected"), IF g = f THEN c ELSE 100, None)]

CallerSets ==
  {CallerSet("name", 74), CallerSet("phone", 74), CallerSet("name", 75)}

\* the form fields of POST /review/{document_id}: address, phone and email
\* default to the empty string
Forms ==
  {[name |-> "rev-name", date_of_birth |-> "rev-dob", insurance_id |-> "rev-ins",
    address |-> a, phone |-> a, email |-> a] : a \in {"", "rev"}}

\* the wrapping that leaves an empty string as a default field
UpdatedData_empty_as_default(form) ==
  [f \in FieldNames |->
     IF form[f] = "" THEN DefaultField
     ELSE ExtractedField(Some(form[f]), 100, None)]

\* routes lines 179-186: each string wrapped with confidence 1.0
UpdatedData(form) ==
  [f \in FieldNames |-> ExtractedField(Some(form[f]), 100, None)]

StoredStatus(id) ==
  IF id \in 1..Len(documents)
  THEN Some(documents[id].processing_status)
  ELSE None

EnterUpdatePatientData(id, pd, route) ==
  /\ pc' = "up_update"
  /\ document_id' = Some(id)
  /\ patient_data' = Some(pd)
  /\ pre_status' = StoredStatus(id)
  /\ pre_fields' = get_by_document_id(patients, id)
  /\ via_route' = route
  /\ status_writes' = <<>>
  /\ write_calls' = <<>>
  /\ faulted' = FALSE
  /\ result' = NoResult

\* a caller of the service calls update_patient_data(document_id, patient_data)
UpdatePatientDataCall ==
  /\ pc = "idle"
  /\ \E id \in 1..MaxDocs, pd \in CallerSets :
       EnterUpdatePatientData(id, pd, FALSE)
  /\ UNCHANGED <<documents, patients, file, extracted_text, error_message,
                 folder_path, reviewers, batch, results>>

\* routes lines 164-188: update_reviewed_data builds updated_data and calls
\* update_patient_data
UpdateReviewedData ==
  /\ pc = "idle"
  /\ \E id \in 1..MaxDocs, form \in Forms :
       EnterUpdatePatientData(id, UpdatedData(form), TRUE)
  /\ UNCHANGED <<documents, patients, file, extracted_text, error_message,
                 folder_path, reviewers, batch, results>>

UpdateResult(value) == [raised |-> FALSE, value |-> value]

\* line 290 (and 291, 299): success = self.patient_repo.update(...)
UpdatePatient ==
  /\ pc = "up_update"
  /\ write_calls' = Append(write_calls, "patients.update")
  /\ \/ /\ patients' = PatientRepository_update(patients, document_id[1],
                                                patient_data[1])
        /\ IF affected_rows(patients, document_id[1]) > 0
           THEN pc' = "up_status" /\ UNCHANGED result
           ELSE pc' = "up_returned" /\ result' = UpdateResult(FALSE)
        /\ UNCHANGED faulted
     \/ /\ pc' = "up_returned"
        /\ result' = UpdateResult(FALSE)
        /\ faulted' = TRUE
        /\ UNCHANGED patients
  /\ UNCHANGED <<documents, file, document_id, extracted_text, patient_data,
                 error_message, status_writes, pre_status, pre_fields,
                 via_route, folder_path, reviewers, batch, results>>

\* line 293: update_status(document_id, COMPLETED)
StatusCompleted ==
  /\ pc = "up_status"
  /\ write_calls' = Append(write_calls, "documents.update_status")
  /\ \/ /\ documents' = update_status(documents, document_id[1], COMPLETED,
                                      None, None)
        /\ status_writes' = Append(status_writes, COMPLETED)
        /\ pc' = "up_log"
        /\ UNCHANGED <<result, faulted>>
     \/ /\ pc' = "up_returned"
        /\ result' = UpdateResult(FALSE)
        /\ faulted' = TRUE
        /\ UNCHANGED <<documents, status_writes>>
  /\ UNCHANGED <<patients, file, document_id, extracted_text, patient_data,
                 error_message, pre_status, pre_fields, via_route,
                 folder_path, reviewers, batch, results>>

\* LogCompleted with create_log outside the try block: its fault reaches the
\* caller
LogCompleted_outside_try ==
  /\ pc = "up_log"
  /\ write_calls' = Append(write_calls, "processing_logs.create_log")
  /\ \/ result' = UpdateResult(TRUE) /\ UNCHANGED faulted
     \/ result' = Raised(StoreFault) /\ faulted' = TRUE
  /\ pc' = "up_returned"
  /\ UNCHANGED <<documents, patients, file, document_id, extracted_text,
                 patient_data, error_message, status_writes, pre_status,
                 pre_fields, via_route, folder_path, reviewers, batch,
                 results>>

\* lines 294-302: the log entry, then return success
LogCompleted ==
  /\ pc = "up_log"
  /\ write_calls' = Append(write_calls, "processing_logs.create_log")
  /\ \/ result' = UpdateResult(TRUE) /\ UNCHANGED faulted
     \/ result' = UpdateResult(FALSE) /\ faulted' = TRUE
  /\ pc' = "up_returned"
  /\ UNCHANGED <<documents, patients, file, document_id, extracted_text,
                 patient_data, error_message, status_writes, pre_status,
                 pre_fields, via_route, folder_path, reviewers, batch,
                 results>>

\* routes lines 190-193: redirect on success, HTTP 500 otherwise
UpdateReviewedDataRespond ==
  /\ pc = "up_returned"
  /\ via_route
  /\ pc' = "rt_responded"
  /\ result' = [raised |-> FALSE,
                status_code |-> IF result.value THEN 303 ELSE 500]
  /\ UNCHANGED <<documents, patients, file, document_id, extracted_text,
                 patient_data, error_message, status_writes, write_calls,
                 pre_status, pre_fields, via_route, folder_path, reviewers,
                 batch, results, faulted>>

\* the caller has the outcome; the locals go away
UpdatePatientDataDone ==
  /\ \/ pc = "up_returned" /\ ~via_route
     \/ pc = "rt_responded"
  /\ pc' = "idle"
  /\ document_id' = Unbound
  /\ patient_data' = Unbound
  /\ pre_status' = None
  /\ pre_fields' = None
  /\ via_route' = FALSE
  /\ status_writes' = <<>>
  /\ write_calls' = <<>>
  /\ faulted' = FALSE
  /\ result' = NoResult
  /\ UNCHANGED <<documents, patients, file, extracted_text, error_message,
                 folder_path, reviewers, batch, results>>

UpdatePatientData ==
  \/ UpdatePatient
  \/ StatusCompleted
  \/ LogCompleted
  \/ UpdateReviewedDataRespond

(***************************************************************************)
(* get_documents_needing_review (the dashboard and the review page)        *)
(***************************************************************************)
\* routes lines 128-139: the query, or HTTP 500 when it raises
ReviewPage ==
  /\ pc = "idle"
  /\ pc' = "rv_responded"
  /\ \/ result' = [raised |-> FALSE,
                   documents |-> get_needing_review(documents, patients)]
     \/ result' = [raised |-> FALSE, status_code |-> 500]
  /\ UNCHANGED <<documents, patients, file, document_id, extracted_text,
                 patient_data, error_message, status_writes, write_calls,
                 pre_status, pre_fields, via_route, folder_path, reviewers,
                 batch, results, faulted>>

ReviewPageDone ==
  /\ pc = "rv_responded"
  /\ pc' = "idle"
  /\ result' = NoResult
  /\ UNCHANGED <<documents, patients, file, document_id, extracted_text,
                 patient_data, error_message, status_writes, write_calls,
                 pre_status, pre_fields, via_route, folder_path, reviewers,
                 batch, results, faulted>>


(***************************************************************************)
(* process_batch                                                           *)
(***************************************************************************)
\* config.py line 53: supported_formats
supported_formats == <<".jpg", ".jpeg", ".png", ".tiff", ".pdf">>

\* str.upper() of a supported extension
upper(ext) ==
  CASE ext = ".jpg" -> ".JPG"
    [] ext = ".jpeg" -> ".JPEG"
    [] ext = ".png" -> ".PNG"
    [] ext = ".tiff" -> ".TIFF"
    [] ext = ".pdf" -> ".PDF"

\* folder.glob(f"*{pattern}"): the entries whose name ends with the pattern,
\* in directory order (names compare case-sensitively)
glob(entries, pattern) == SelectSeq(entries, LAMBDA e : e.suffix = pattern)

RECURSIVE SupportedFiles(_, _)
\* lines 261-264: for each extension, the lower-case and the upper-case glob
SupportedFiles(entries, exts) ==
  IF exts = <<>> THEN <<>>
  ELSE glob(entries, Head(exts)) \o glob(entries, upper(Head(exts)))
       \o SupportedFiles(entries, Tail(exts))

GoodFile == [exists |-> TRUE, ocr |-> OcrLines(<< <<"p1">>, <<"sp", "email">> >>)]

BadFile == [exists |-> TRUE, ocr |-> OcrFails]

Entry(suffix, f) == [suffix |-> suffix, file |-> f]

\* the folders a caller hands to process_batch
Folders ==
  { [exists |-> FALSE, entries |-> <<>>],
    [exists |-> TRUE, entries |-> <<>>],
    [exists |-> TRUE,
     entries |-> <<Entry(".PDF", GoodFile), Entry(".txt", GoodFile),
                   Entry(".jpg", BadFile)>>],
    [exists |-> TRUE,
     entries |-> <<Entry(".Pdf", GoodFile), Entry(".pdf", GoodFile)>>] }

\* ProcessBatchCall treating a folder that does not exist as an empty one
ProcessBatchCall_missing_as_empty ==
  /\ pc = "idle"
  /\ \E folder \in Folders :
       /\ Len(documents) + Len(SupportedFiles(folder.entries, supported_formats))
            <= MaxDocs
       /\ IF ~folder.exists
          THEN /\ pc' = "pb_loop"
               /\ batch' = Some(<<>>)
               /\ UNCHANGED result
          ELSE /\ pc' = "pb_loop"
               /\ batch' = Some(SupportedFiles(folder.entries, supported_formats))
               /\ UNCHANGED result
       /\ folder_path' = folder
       /\ UNCHANGED reviewers
  /\ results' = <<>>
  /\ UNCHANGED <<documents, patients, file, document_id, extracted_text,
                 patient_data, error_message, status_writes, write_calls,
                 pre_status, pre_fields, via_route, faulted>>

\* a caller calls process_batch(folder_path)
ProcessBatchCall ==
  /\ pc = "idle"
  /\ \E folder \in Folders :
       /\ Len(documents) + Len(SupportedFiles(folder.entries, supported_formats))
            <= MaxDocs
       /\ IF ~folder.exists
          THEN /\ pc' = "pb_raised"
               /\ result' = Raised("ValueError")
               /\ UNCHANGED batch
          ELSE /\ pc' = "pb_loop"
               /\ batch' = Some(SupportedFiles(folder.entries, supported_formats))
               /\ UNCHANGED result
       /\ folder_path' = folder
       /\ UNCHANGED reviewers
  /\ results' = <<>>
  /\ UNCHANGED <<documents, patients, file, document_id, extracted_text,
                 patient_data, error_message, status_writes, write_calls,
                 pre_status, pre_fields, via_route, faulted>>

\* line 268: the next file of supported_files, or line 281: return results
ProcessBatchLoop ==
  /\ pc = "pb_loop"
  /\ IF batch[1] = <<>>
     THEN /\ pc' = "pb_returned"
          /\ result' = [raised |-> FALSE, results |-> results]
          /\ UNCHANGED <<file, document_id, extracted_text, patient_data,
                         error_message, status_writes, write_calls, faulted>>
     ELSE EnterProcessDocument(Head(batch[1]).file)
  /\ UNCHANGED <<documents, patients, pre_status, pre_fields, via_route,
                 folder_path, reviewers, batch, results>>

\* ProcessBatchCollect without the try block of the loop: an exception of
\* process_document ends the loop
ProcessBatchCollect_abort_on_raise ==
  /\ pc \in {"pd_returned", "pd_raised"}
  /\ batch # None
  /\ results' = Append(results,
                  IF result.raised
                  THEN ProcessDocumentResult(0, FALSE, None,
                         <<[prefix |-> "", detail |-> result.exception]>>,
                         Zero)
                  ELSE result)
  /\ batch' = Some(IF result.raised THEN <<>> ELSE Tail(batch[1]))
  /\ UNCHANGED <<folder_path, reviewers>>
  /\ pc' = "pb_loop"
  /\ file' = NoFile
  /\ document_id' = Unbound
  /\ extracted_text' = Unbound
  /\ patient_data' = Unbound
  /\ error_message' = Unbound
  /\ status_writes' = <<>>
  /\ write_calls' = <<>>
  /\ faulted' = FALSE
  /\ result' = NoResult
  /\ UNCHANGED <<documents, patients, pre_status, pre_fields, via_route>>

\* lines 270-279: the result of process_document is appended; when it raised,
\* ProcessingResult(document_id=0, success=False, errors=[str(e)]) is
ProcessBatchCollect ==
  /\ pc \in {"pd_returned", "pd_raised"}
  /\ batch # None
  /\ results' = Append(results,
                  IF result.raised
                  THEN ProcessDocumentResult(0, FALSE, None,
                         <<[prefix |-> "", detail |-> result.exception]>>,
                         Zero)
                  ELSE result)
  /\ batch' = Some(Tail(batch[1]))
  /\ UNCHANGED <<folder_path, reviewers>>
  /\ pc' = "pb_loop"
  /\ file' = NoFile
  /\ document_id' = Unbound
  /\ extracted_text' = Unbound
  /\ patient_data' = Unbound
  /\ error_message' = Unbound
  /\ status_writes' = <<>>
  /\ write_calls' = <<>>
  /\ faulted' = FALSE
  /\ result' = NoResult
  /\ UNCHANGED <<documents, patients, pre_status, pre_fields, via_route>>

\* the caller has the outcome of process_batch
ProcessBatchDone ==
  /\ pc \in {"pb_returned", "pb_raised"}
  /\ pc' = "idle"
  /\ batch' = None
  /\ folder_path' = NoFolder
  /\ UNCHANGED reviewers
  /\ results' = <<>>
  /\ faulted' = FALSE
  /\ result' = NoResult
  /\ UNCHANGED <<documents, patients, file, document_id, extracted_text,
                 patient_data, error_message, status_writes, write_calls,
                 pre_status, pre_fields, via_route>>

ProcessBatch ==
  \/ ProcessBatchLoop
  \/ ProcessBatchCollect

Next ==
  \/ ProcessDocumentCall
  \/ ProcessDocument
  \/ ProcessDocumentDone
  \/ UpdatePatientDataCall
  \/ UpdateReviewedData
  \/ UpdatePatientData
  \/ UpdatePatientDataDone
  \/ ReviewPage
  \/ ReviewPageDone
  \/ ProcessBatchCall
  \/ ProcessBatch
  \/ ProcessBatchDone

Spec == Init /\ [][Next]_vars

(***************************************************************************)
(* Properties                                                              *)
(***************************************************************************)
DocIds == 1..Len(documents)

StatusOf(id) == documents[id].processing_status

TerminalStatuses == {COMPLETED, NEEDS_REVIEW, FAILED}

\* the stored field set of a document has a confidence below 0.75
HasLowStoredField(id) ==
  /\ get_by_document_id(patients, id) # None
  /\ \E f \in FieldNames :
       get_by_document_id(patients, id)[1][f].confidence < 75

\* C1: every run of process_document, faults included, ends by returning a
\* ProcessingResult to the caller (success=false with a non-empty errors list
\* when a fault happened); no exception reaches the caller.
C1_NoExceptionReachesCaller ==
  /\ pc # "pd_raised"
  /\ (pc = "pd_returned" /\ error_message # Unbound)
       => (~result.success /\ result.errors # <<>>)

\* C2: the stored status of a document leaves pending only by becoming
\* processing.
C2_PendingOnlyToProcessing ==
  [][\A id \in DocIds :
       StatusOf(id) = PENDING
         => documents'[id].processing_status \in {PENDING, PROCESSING}]_vars

\* C3: an invocation of process_document that reached processing writes at
\* most one terminal status, and when it has returned it has written exactly
\* one and that one is the stored status.
C3_ExactlyOneTerminalStatus ==
  LET terminal == SelectSeq(status_writes, LAMBDA st : st \in TerminalStatuses)
  IN (pc \in {"pd_final_log", "pd_except", "pd_status_failed", "pd_log_failed",
              "pd_returned", "pd_raised"}
      /\ status_writes # <<>>)
       => /\ Len(terminal) <= 1
          /\ pc = "pd_returned"
               => /\ Len(terminal) = 1
                  /\ StatusOf(document_id[1]) = terminal[1]

\* C4: a document whose stored status is needs_review changes status only in
\* update_patient_data, and then to completed.
C4_NeedsReviewLeftOnlyByReview ==
  [][\A id \in DocIds :
       (StatusOf(id) = NEEDS_REVIEW
        /\ documents'[id].processing_status # NEEDS_REVIEW)
         => /\ pc = "up_status"
            /\ documents'[id].processing_status = COMPLETED]_vars

\* C5: no operation removes a document row, and a document whose stored
\* status is not pending never has stored status pending afterwards.
C5_NeverBackToPending ==
  [][/\ Len(documents') >= Len(documents)
     /\ \A id \in DocIds :
          StatusOf(id) # PENDING
            => documents'[id].processing_status # PENDING]_vars

\* C5 witness: in the middle of a batch, a reviewed document is completed
\* and the status of another one has been written more than once.
C5_Witness ==
  /\ batch # None
  /\ Len(status_writes) >= 2
  /\ \E id \in DocIds : StatusOf(id) = COMPLETED

\* C6: when process_document has returned success=true, the stored status is
\* needs_review if a field of the returned extracted_data has confidence
\* below 0.75 and completed if none has.
C6_SuccessStatusMatchesConfidence ==
  (pc = "pd_returned" /\ result.success)
    => LET low == \E f \in FieldNames :
                    result.extracted_data[1][f].confidence < 75
       IN /\ low => StatusOf(result.document_id) = NEEDS_REVIEW
          /\ ~low => StatusOf(result.document_id) = COMPLETED

\* C6 witness: process_document has returned success=true with extracted
\* fields of which some are above and some below the threshold.
C6_Witness ==
  /\ pc = "pd_returned"
  /\ result.success
  /\ result.extracted_data[1]["email"].confidence >= 75
  /\ result.extracted_data[1]["address"].confidence < 75

\* what the provider returned is unusable: no text, or only whitespace
ProviderGaveNothing(text) ==
  \/ text = None
  \/ \A i \in 1..Len(text[1]) : text[1][i] = "sp"

\* C7: when the provider returned None, the empty string or whitespace only
\* and process_document has returned, the stored status is failed, the result
\* is success=false, the "No text extracted from document" message is in the
\* result's errors and in the stored processing_errors, and the document has
\* no patient row.
C7_NoTextOutcome ==
  (pc = "pd_returned" /\ extracted_text # Unbound
   /\ ProviderGaveNothing(extracted_text[1]))
    => /\ StatusOf(document_id[1]) = FAILED
       /\ ~result.success
       /\ \E i \in 1..Len(result.errors) :
            result.errors[i].detail = NoTextMessage
       /\ documents[document_id[1]].processing_errors # None
       /\ \E i \in 1..Len(documents[document_id[1]].processing_errors[1]) :
            documents[document_id[1]].processing_errors[1][i].detail
              = NoTextMessage
       /\ get_by_document_id(patients, document_id[1]) = None

\* C7 witness: the provider returned whitespace-only text and
\* process_document has returned.
C7_Witness ==
  /\ pc = "pd_returned"
  /\ extracted_text = Some(Some(<<"sp">>))
  /\ StatusOf(document_id[1]) = FAILED

\* C8: a review submission through the route for a document in needs_review,
\* with no store statement raising, returns true and leaves the stored status
\* completed and a stored field set without low-confidence fields.
C8_ReviewCompletes ==
  (pc = "up_returned" /\ via_route /\ pre_status = Some(NEEDS_REVIEW)
   /\ ~faulted)
    => /\ result.value
       /\ StatusOf(document_id[1]) = COMPLETED
       /\ get_by_document_id(patients, document_id[1]) # None
       /\ get_low_confidence_fields(
            get_by_document_id(patients, document_id[1])[1]) = {}

\* C8 witness: such a submission with empty address, phone and email has
\* returned.
C8_Witness ==
  /\ pc = "up_returned"
  /\ via_route
  /\ pre_status = Some(NEEDS_REVIEW)
  /\ ~faulted
  /\ patient_data[1]["address"].value = Some("")
  /\ StatusOf(document_id[1]) = COMPLETED

\* C9: with no operation in progress, a document that is completed or
\* needs_review is needs_review exactly when one of its six stored
\* confidences is below 0.75.
C9_StatusAgreesWithConfidences ==
  pc = "idle"
    => \A id \in DocIds :
         StatusOf(id) \in {COMPLETED, NEEDS_REVIEW}
           => (StatusOf(id) = NEEDS_REVIEW <=> HasLowStoredField(id))

Range(seq) == {seq[i] : i \in 1..Len(seq)}

\* C10: get_needing_review returns exactly the documents whose status is
\* needs_review or whose field set has one of the six confidences below 0.75.
C10_NeedingReviewIsTheUnion ==
  (pc = "rv_responded" /\ "documents" \in DOMAIN result)
    => Range(result.documents)
         = {id \in DocIds : StatusOf(id) = NEEDS_REVIEW \/ HasLowStoredField(id)}

(***************************************************************************)
(* Readers of the store while an operation is between two of its steps     *)
(***************************************************************************)
\* routes lines 108-112: a reader takes the document's status and its field
\* set from the store as they are at that moment
ReaderObserves(id) ==
  [status |-> StoredStatus(id),
   patient_data |-> get_by_document_id(patients, id)]

\* a field set as a reader gets it back once it has been written
AsStored(pd) == _row_to_patient_data(PatientRow(0, pd))

UpdateSteps == {"up_update", "up_status", "up_log", "up_returned"}

ProcessSteps ==
  {"pd_patient_create", "pd_final_status", "pd_final_log", "pd_except",
   "pd_status_failed", "pd_log_failed", "pd_returned", "pd_raised"}

\* C11: at every point between the steps of update_patient_data or
\* process_document, a reader that sees the document completed by that
\* operation sees the field set the operation wrote, and a reader that sees
\* the field set update_patient_data wrote sees the status completed.
C11_ReaderSeesStatusAndFieldsTogether ==
  /\ (pc \in UpdateSteps \cup ProcessSteps /\ COMPLETED \in Range(status_writes))
       => ReaderObserves(document_id[1]).patient_data
            = Some(AsStored(patient_data[1]))
  /\ (/\ pc \in UpdateSteps
      /\ "patients.update" \in Range(write_calls)
      /\ ReaderObserves(document_id[1]).patient_data
           = Some(AsStored(patient_data[1])))
       => ReaderObserves(document_id[1]).status = Some(COMPLETED)

\* the error messages stored for a document (processing_errors, NULL as none)
StoredErrors(d) ==
  IF d.processing_errors = None THEN {} ELSE Range(d.processing_errors[1])

\* C12: every error message stored for a document is still stored for it
\* after every later step: the stored list only grows.
C12_StoredErrorsOnlyGrow ==
  [][\A id \in DocIds :
       StoredErrors(documents[id]) \subseteq StoredErrors(documents'[id])]_vars

\* C13: when update_patient_data has returned true the store holds the
\* corrected field set and the status completed, and when it has returned
\* false the stored field set and the stored status are those of before the
\* call.
C13_UpdateIsAllOrNothing ==
  pc = "up_returned"
    => /\ result.value
            => /\ ReaderObserves(document_id[1]).patient_data
                    = Some(AsStored(patient_data[1]))
               /\ ReaderObserves(document_id[1]).status = Some(COMPLETED)
       /\ ~result.value
            => /\ ReaderObserves(document_id[1]).patient_data = pre_fields
               /\ ReaderObserves(document_id[1]).status = pre_status

\* how many times this call has executed the store write named stmt
WriteCount(stmt) ==
  Cardinality({i \in 1..Len(write_calls) : write_calls[i] = stmt})

\* C14: update_patient_data hands its caller a boolean and never an
\* exception; the boolean is false when there is no patient row for the
\* document id and when a store call raised; and no store write is executed
\* more than once in a call.
C14_UpdateReturnsFalseAndNeverRetries ==
  /\ \A stmt \in Range(write_calls) : WriteCount(stmt) <= 1
  /\ pc = "up_returned"
       => /\ ~result.raised
          /\ result.value \in BOOLEAN
          /\ (faulted \/ pre_fields = None) => result.value = FALSE

\* C14 witness: a call whose third store write raised has returned false,
\* having executed each of the three writes once.
C14_Witness ==
  /\ pc = "up_returned"
  /\ faulted
  /\ write_calls = <<"patients.update", "documents.update_status",
                     "processing_logs.create_log">>
  /\ result = UpdateResult(FALSE)

(***************************************************************************)
(* process_batch                                                           *)
(***************************************************************************)
\* lines 261-264: the local supported_files, the files in discovery order
supported_files == SupportedFiles(folder_path.entries, supported_formats)

\* the part of a ProcessingResult that does not name a row of the store
Outcome(r) ==
  [success |-> r.success, extracted_data |-> r.extracted_data,
   errors |-> r.errors, confidence_score |-> r.confidence_score]

\* what process_document returns for an existing file f when no store call
\* raises while f is processed
FaultFreeOutcomes(f) ==
  IF NoTextExtracted(extract_text_from_document(f))
  THEN {[success |-> FALSE, extracted_data |-> None,
         errors |-> <<ErrorMessage(NoTextMessage)>>, confidence_score |-> Zero]}
  ELSE {[success |-> TRUE, extracted_data |-> Some(pd), errors |-> <<>>,
         confidence_score |-> _calculate_overall_confidence(pd)] :
          pd \in {extract_patient_data(extract_text_from_document(f)[1], n) :
                    n \in BOOLEAN}}

\* r is a result the loop can collect for file f: a success is a fault-free
\* outcome of f, and a failure for lack of text is one of a file without text
IsOutcomeOf(f, r) ==
  /\ r.success => Outcome(r) \in FaultFreeOutcomes(f)
  /\ ~r.success =>
       /\ r.extracted_data = None
       /\ Len(r.errors) = 1
       /\ r.errors[1].detail = NoTextMessage
            => NoTextExtracted(extract_text_from_document(f))

\* C15: process_batch collects one result per discovered file, the i-th
\* result being the outcome of the i-th file; a file processed without a
\* store fault gets its fault-free outcome whatever happened to the files
\* before it; and the batch returns a result for every discovered file.
C15_BatchIsolatesFiles ==
  /\ batch # None
       => /\ Len(results) <= Len(supported_files)
          /\ \A i \in 1..Len(results) :
               IsOutcomeOf(supported_files[i].file, results[i])
          /\ pc = "pb_loop"
               => Len(results) + Len(batch[1]) = Len(supported_files)
          /\ (pc \in {"pd_returned", "pd_raised"} /\ ~faulted)
               => /\ ~result.raised
                  /\ Outcome(result) \in FaultFreeOutcomes(file)
  /\ pc = "pb_returned"
       => /\ Len(result.results) = Len(supported_files)
          /\ result.results = results

\* C15 witness: a batch of two files has returned two results; processing
\* the first file raised, the second file succeeded.
C15_Witness ==
  /\ pc = "pb_returned"
  /\ Len(result.results) = 2
  /\ result.results[1].document_id = 0
  /\ ~result.results[1].success
  /\ result.results[2].success

\* str.lower() of the extensions that occur in Folders
lower(ext) ==
  CASE ext \in {".PDF", ".Pdf"} -> ".pdf"
    [] ext \in {".JPG", ".JpG"} -> ".jpg"
    [] OTHER -> ext

\* FileUtils.is_supported_format, and the test of the upload route: the
\* lower-cased extension is one of the supported formats
is_supported_format(ext, formats) == lower(ext) \in Range(formats)

\* how many times the loop of process_batch takes the entry e
TimesSelected(e) ==
  Cardinality({i \in 1..Len(supported_files) : supported_files[i] = e})

\* C16: process_batch takes every file of the folder whose extension is a
\* supported format when compared without regard to case exactly once, and
\* no other file: the files is_supported_format and the upload route accept.
C16_BatchSelectsWhatUploadAccepts ==
  batch # None
    => /\ \A k \in 1..Len(folder_path.entries) :
            TimesSelected(folder_path.entries[k])
              = IF is_supported_format(folder_path.entries[k].suffix,
                                       supported_formats)
                THEN 1 ELSE 0
       /\ pc = "pb_returned"
            => Len(result.results)
                 = Cardinality({k \in 1..Len(folder_path.entries) :
                      is_supported_format(folder_path.entries[k].suffix,
                                          supported_formats)})

\* C17: process_batch never raises to its caller; for every folder path,
\* also one that does not exist, it returns a list of results.
C17_BatchNeverRaises == pc # "pb_raised"

\* C17, amended: process_batch returns a list of results for every folder
\* path that exists, and raises ValueError exactly for a path that does not
\* exist.
C17_BatchRaisesOnlyForMissingFolder ==
  /\ pc = "pb_raised"
       => ~folder_path.exists /\ result = Raised("ValueError")
  /\ pc = "pb_returned"
       => /\ folder_path.exists
          /\ ~result.raised
          /\ Len(result.results) = Len(supported_files)
  /\ batch # None => folder_path.exists

\* C17 witness: process_batch has raised ValueError for a folder path that
\* does not exist.
C17_Witness ==
  /\ pc = "pb_raised"
  /\ ~folder_path.exists
  /\ result.exception = "ValueError"

(***************************************************************************)
(* The properties of ExtractedField, PatientData and ProcessingResult,     *)
(* applied to field sets drawn from a grid of confidences                  *)
(***************************************************************************)
\* the confidences 0.00, 0.01, ..., 1.00
Hundredths == 0..100

\* PatientData objects: one field with any confidence of the grid, each of
\* the others with 0.0 or 0.75
GridFieldSets ==
  {[f \in FieldNames |->
      ExtractedField(None, IF f = g THEN c ELSE others[f], None)] :
     g \in FieldNames, c \in Hundredths, others \in [FieldNames -> {0, 75}]}

InitModels ==
  /\ documents = <<>>
  /\ patients = <<>>
  /\ pc = "md_input"
  /\ file = NoFile
  /\ document_id = Unbound
  /\ extracted_text = Unbound
  /\ patient_data \in {Some(F) : F \in GridFieldSets}
  /\ error_message = Unbound
  /\ status_writes = <<>>
  /\ write_calls = <<>>
  /\ pre_status = None
  /\ pre_fields = None
  /\ via_route = FALSE
  /\ folder_path = NoFolder
  /\ reviewers = <<>>
  /\ batch = None
  /\ results = <<>>
  /\ faulted = FALSE
  /\ result = NoResult

\* the variables no property of the models touches
ModelsFrame ==
  UNCHANGED <<documents, patients, file, document_id, extracted_text,
              patient_data, error_message, status_writes, write_calls,
              pre_status, pre_fields, via_route, folder_path, reviewers,
              batch, results, faulted>>

\* field.confidence_level of each of the six fields
ConfidenceLevels ==
  /\ pc = "md_input"
  /\ pc' = "md_levels"
  /\ result' = [raised |-> FALSE,
                levels |-> [f \in FieldNames |->
                              confidence_level(patient_data[1][f])]]
  /\ ModelsFrame

\* patient_data.get_low_confidence_fields()
LowConfidenceFields ==
  /\ pc = "md_input"
  /\ pc' = "md_low"
  /\ result' = [raised |-> FALSE,
                low |-> get_low_confidence_fields(patient_data[1])]
  /\ ModelsFrame

\* services lines 205 and 224-230: the ProcessingResult of a successful run
\* with this field set
ReturnSuccess ==
  /\ pc = "md_input"
  /\ pc' = "md_returned"
  /\ result' = ProcessDocumentResult(1, TRUE, patient_data, <<>>,
                 _calculate_overall_confidence(patient_data[1]))
  /\ ModelsFrame

\* services lines 245-250: the ProcessingResult of a failed run
ReturnFailure ==
  /\ pc = "md_input"
  /\ pc' = "md_returned"
  /\ result' = ProcessDocumentResult(0, FALSE, None,
                 <<ErrorMessage(NoTextMessage)>>, Zero)
  /\ ModelsFrame

NextModels ==
  \/ ConfidenceLevels
  \/ LowConfidenceFields
  \/ ReturnSuccess
  \/ ReturnFailure

SpecModels == InitModels /\ [][NextModels]_vars

\* C18: for every confidence c of the grid, confidence_level is one of high,
\* medium and low: high exactly when c >= 0.8, medium exactly when
\* 0.5 <= c < 0.8, low exactly when c < 0.5.
C18_ConfidenceLevelPartition ==
  pc = "md_levels"
    => \A f \in FieldNames :
         LET c == patient_data[1][f].confidence
             level == result.levels[f]
         IN /\ level \in {"high", "medium", "low"}
            /\ level = "high" <=> c >= 80
            /\ level = "medium" <=> (50 <= c /\ c < 80)
            /\ level = "low" <=> c < 50

\* C18 witness: a field with confidence exactly 0.8 has been classified
\* high, next to fields classified low.
C18_Witness ==
  /\ pc = "md_levels"
  /\ patient_data[1]["name"].confidence = 80
  /\ result.levels["name"] = HIGH
  /\ result.levels["address"] = LOW

\* C19: get_low_confidence_fields returns exactly the fields whose
\* confidence is below 0.75, so it is non-empty exactly when one of the six
\* confidences is below 0.75; a field with confidence in [0.5, 0.75) is
\* medium and returned, one in [0.75, 0.8) is medium and not returned.
C19_LowConfidenceFieldsBelowThreshold ==
  pc = "md_low"
    => /\ result.low = {f \in FieldNames : patient_data[1][f].confidence < 75}
       /\ result.low # {}
            <=> \E f \in FieldNames : patient_data[1][f].confidence < 75
       /\ \A f \in FieldNames :
            LET c == patient_data[1][f].confidence
            IN /\ (50 <= c /\ c < 75)
                    => /\ confidence_level(patient_data[1][f]) = MEDIUM
                       /\ f \in result.low
               /\ (75 <= c /\ c < 80)
                    => /\ confidence_level(patient_data[1][f]) = MEDIUM
                       /\ f \notin result.low

\* C19 witness: a field with confidence 0.77 is medium and not returned,
\* while the fields with confidence 0 are.
C19_Witness ==
  /\ pc = "md_low"
  /\ patient_data[1]["phone"].confidence = 77
  /\ "phone" \notin result.low
  /\ "address" \in result.low

\* the sum of the positive ones of the six confidences, and their number
PositiveSum(pd) ==
  (IF pd["name"].confidence > 0 THEN pd["name"].confidence ELSE 0)
  + (IF pd["date_of_birth"].confidence > 0
     THEN pd["date_of_birth"].confidence ELSE 0)
  + (IF pd["insurance_id"].confidence > 0
     THEN pd["insurance_id"].confidence ELSE 0)
  + (IF pd["address"].confidence > 0 THEN pd["address"].confidence ELSE 0)
  + (IF pd["phone"].confidence > 0 THEN pd["phone"].confidence ELSE 0)
  + (IF pd["email"].confidence > 0 THEN pd["email"].confidence ELSE 0)

PositiveCount(pd) ==
  Cardinality({f \in FieldNames : pd[f].confidence > 0})

\* C20: the confidence_score of a successful result is the mean of the
\* confidences that are greater than 0, and 0.0 when there is none; and
\* overall_confidence of every result, successful or failed, is its
\* confidence_score.
C20_ConfidenceScoreIsMeanOfPositives ==
  pc \in {"md_returned", "pd_returned"}
    => /\ result.success
            => LET pd == result.extracted_data[1]
                   score == result.confidence_score
               IN /\ score.den > 0
                  /\ score.num * PositiveCount(pd) = PositiveSum(pd) * score.den
                  /\ PositiveCount(pd) = 0 => score = Zero
       /\ overall_confidence(result.extracted_data) = result.confidence_score

\* C20 witness: a successful result over a field set with a zero confidence
\* and two different positive ones has a score that is not 0.0.
C20_Witness ==
  /\ pc = "md_returned"
  /\ result.success
  /\ result.extracted_data[1]["address"].confidence = 0
  /\ result.extracted_data[1]["name"].confidence = 80
  /\ result.extracted_data[1]["email"].confidence = 75
  /\ result.confidence_score # Zero

(***************************************************************************)
(* NLPService.extract_patient_data applied to texts drawn from a bounded   *)
(* set                                                                     *)
(***************************************************************************)
MaxTextLen == 5

\* the tokens a text handed to the NLP service is made of
NlpTokens == Tokens \ {"sp"}

\* the texts of at most MaxTextLen tokens
Texts == UNION {[1..k -> NlpTokens] : k \in 0..MaxTextLen}

InitNLP ==
  /\ documents = <<>>
  /\ patients = <<>>
  /\ pc = "nlp_input"
  /\ file = NoFile
  /\ document_id = Unbound
  /\ extracted_text \in {Some(Some(t)) : t \in Texts}
  /\ patient_data = Unbound
  /\ error_message = Unbound
  /\ status_writes = <<>>
  /\ write_calls = <<>>
  /\ pre_status = None
  /\ pre_fields = None
  /\ via_route = FALSE
  /\ folder_path = NoFolder
  /\ reviewers = <<>>
  /\ batch = None
  /\ results = <<>>
  /\ faulted = FALSE
  /\ result = NoResult

\* services lines 66-120: extract_patient_data(text) returns its field set;
\* when a step inside the try raised, the except branch has logged the error
ExtractPatientDataFromText ==
  /\ pc = "nlp_input"
  /\ pc' = "nlp_done"
  /\ \E nlp_raises \in BOOLEAN :
       /\ patient_data' =
            Some(extract_patient_data(extracted_text[1][1], nlp_raises))
       /\ result' = [raised |-> FALSE, error_logged |-> nlp_raises]
  /\ UNCHANGED <<documents, patients, file, document_id, extracted_text,
                 error_message, status_writes, write_calls, pre_status,
                 pre_fields, via_route, folder_path, reviewers, batch,
                 results, faulted>>

NextNLP == ExtractPatientDataFromText

SpecNLP == InitNLP /\ [][NextNLP]_vars

\* the entities of a text that carry the given label, in text order
EntitiesLabelled(text, label) ==
  SelectSeq(text, LAMBDA tok : Label(tok) = label)

\* C21: the name is taken from the first PERSON entity of the text and the
\* date of birth from the first DATE entity; later entities of the same
\* label change neither.
C21_FirstEntityWins ==
  (pc = "nlp_done" /\ ~result.error_logged)
    => LET text == extracted_text[1][1]
           persons == EntitiesLabelled(text, "PERSON")
           dates == EntitiesLabelled(text, "DATE")
       IN /\ persons # <<>>
               => patient_data[1]["name"].value = Some(Head(persons))
          /\ dates # <<>>
               => patient_data[1]["date_of_birth"].value
                    = Some(_clean_date(Head(dates)))

\* the tokens from which the extractor fills field f
TokensOf(f) ==
  CASE f = "name" -> {"p1", "p2"}
    [] f = "date_of_birth" -> {"d1", "d2"}
    [] f = "insurance_id" -> {"ins"}
    [] f = "phone" -> {"phone"}
    [] f = "email" -> {"email"}
    [] OTHER -> {}

\* the extractor finds field f in the text
Found(f, text) == \E i \in 1..Len(text) : text[i] \in TokensOf(f)

\* the text with what the other fields are found by taken out
WithoutOtherFields(text, f) ==
  SelectSeq(text, LAMBDA tok : tok \in TokensOf(f) \cup {"w"})

\* C22: when no step raises, each field the extractor finds has its fixed
\* confidence (name 0.8, date_of_birth 0.7, insurance_id 0.6, phone 0.7,
\* email 0.9), each field it does not find, and address always, has value
\* None and confidence 0; a field is the same whether or not the others are
\* found; and every confidence lies in [0, 1].
C22_FoundFieldsHaveFixedConfidence ==
  (pc = "nlp_done" /\ ~result.error_logged)
    => LET text == extracted_text[1][1]
           pd == patient_data[1]
           fixed == [name |-> 80, date_of_birth |-> 70, insurance_id |-> 60,
                     address |-> 0, phone |-> 70, email |-> 90]
       IN \A f \in FieldNames :
            /\ Found(f, text)
                 => pd[f].confidence = fixed[f] /\ pd[f].value # None
            /\ ~Found(f, text)
                 => pd[f] = [value |-> None, confidence |-> 0, raw_text |-> None]
            /\ ~Found("address", text)
            /\ pd[f] = extract_patient_data(WithoutOtherFields(text, f), FALSE)[f]
            /\ pd[f].confidence \in 0..100

\* C22 witness: a text in which all five heuristics find their field has
\* been extracted.
C22_Witness ==
  /\ pc = "nlp_done"
  /\ ~result.error_logged
  /\ \A f \in FieldNames \ {"address"} : patient_data[1][f].confidence > 0
  /\ patient_data[1]["address"] = DefaultField

\* C23: when a step inside extract_patient_data raises, the returned field
\* set is the empty one: six fields with value None and confidence 0,
\* whatever had been extracted before the fault.
C23_FaultGivesEmptyFieldSet ==
  (pc = "nlp_done" /\ result.error_logged)
    => \A f \in FieldNames :
         /\ patient_data[1][f].value = None
         /\ patient_data[1][f].confidence = 0

\* C23 witness: the extraction of a text with a PERSON entity has raised and
\* returned the empty field set.
C23_Witness ==
  /\ pc = "nlp_done"
  /\ result.error_logged
  /\ Found("name", extracted_text[1][1])
  /\ patient_data[1] = EmptyPatientData

\* C24: process_document never writes the status completed: every field set
\* the extractor returns has a confidence below 0.75, so a run that returns
\* success=true leaves its document in needs_review, and completed is
\* written by update_patient_data only.
C24_ProcessNeverCompletes ==
  /\ COMPLETED \in Range(status_writes)
       => pc \in UpdateSteps \cup {"rt_responded"}
  /\ pc \in {"pd_patient_create", "pd_final_status", "pd_final_log", "nlp_done"}
       => FinalStatus(patient_data[1]) = NEEDS_REVIEW
  /\ (pc = "pd_returned" /\ result.success)
       => /\ StatusOf(result.document_id) = NEEDS_REVIEW
          /\ result.extracted_data[1]["address"].confidence = 0

\* C24 witness: a run whose extracted name and email both have a confidence
\* of 0.75 or more has returned success=true with the document in
\* needs_review.
C24_Witness ==
  /\ pc = "pd_returned"
  /\ result.success
  /\ result.extracted_data[1]["name"].confidence >= 75
  /\ result.extracted_data[1]["email"].confidence >= 75
  /\ StatusOf(result.document_id) = NEEDS_REVIEW

(***************************************************************************)
(* update_patient_data called by other request handlers while an operation *)
(* is in progress: every store statement is one step of its own            *)
(***************************************************************************)
\* the two review forms
FormA == CHOOSE form \in Forms : form["address"] = "rev"

FormB == CHOOSE form \in Forms : form["address"] = ""

\* a handler that has not called update_patient_data yet; pd is the
\* updated_data it will pass
IdleReviewer(pd) ==
  [pc |-> "idle", document_id |-> Unbound, patient_data |-> pd,
   result |-> None]

\* what the steps of another handler leave alone
ReviewerFrame ==
  UNCHANGED <<pc, file, document_id, extracted_text, patient_data,
              error_message, status_writes, write_calls, pre_status,
              pre_fields, via_route, folder_path, batch, results, faulted,
              result>>

\* services line 287: the handler calls update_patient_data(id, updated_data)
ReviewerCall ==
  /\ \E i \in DOMAIN reviewers, id \in DocIds :
       /\ reviewers[i].pc = "idle"
       /\ reviewers' = [reviewers EXCEPT ![i].pc = "up_update",
                                         ![i].document_id = Some(id)]
  /\ UNCHANGED <<documents, patients>>
  /\ ReviewerFrame

\* line 290: patient_repo.update; lines 292, 300-302: no row or a fault
\* gives False
ReviewerUpdate ==
  /\ \E i \in DOMAIN reviewers :
       /\ reviewers[i].pc = "up_update"
       /\ \/ /\ patients' = PatientRepository_update(patients,
                              reviewers[i].document_id[1],
                              reviewers[i].patient_data)
             /\ reviewers' =
                  IF affected_rows(patients, reviewers[i].document_id[1]) > 0
                  THEN [reviewers EXCEPT ![i].pc = "up_status"]
                  ELSE [reviewers EXCEPT ![i].pc = "returned",
                                         ![i].result = Some(FALSE)]
          \/ /\ reviewers' = [reviewers EXCEPT ![i].pc = "returned",
                                               ![i].result = Some(FALSE)]
             /\ UNCHANGED patients
  /\ UNCHANGED documents
  /\ ReviewerFrame

\* line 293: update_status(document_id, COMPLETED)
ReviewerStatus ==
  /\ \E i \in DOMAIN reviewers :
       /\ reviewers[i].pc = "up_status"
       /\ \/ /\ documents' = update_status(documents,
                               reviewers[i].document_id[1], COMPLETED,
                               None, None)
             /\ reviewers' = [reviewers EXCEPT ![i].pc = "up_log"]
          \/ /\ reviewers' = [reviewers EXCEPT ![i].pc = "returned",
                                               ![i].result = Some(FALSE)]
             /\ UNCHANGED documents
  /\ UNCHANGED patients
  /\ ReviewerFrame

\* lines 294-302: create_log, then return success; a fault gives False
ReviewerLog ==
  /\ \E i \in DOMAIN reviewers, ok \in BOOLEAN :
       /\ reviewers[i].pc = "up_log"
       /\ reviewers' = [reviewers EXCEPT ![i].pc = "returned",
                                         ![i].result = Some(ok)]
  /\ UNCHANGED <<documents, patients>>
  /\ ReviewerFrame

\* process_document and one reviewing handler
InitRace ==
  /\ documents = <<>>
  /\ patients = <<>>
  /\ pc = "idle"
  /\ file = NoFile
  /\ document_id = Unbound
  /\ extracted_text = Unbound
  /\ patient_data = Unbound
  /\ error_message = Unbound
  /\ status_writes = <<>>
  /\ write_calls = <<>>
  /\ pre_status = None
  /\ pre_fields = None
  /\ via_route = FALSE
  /\ folder_path = NoFolder
  /\ reviewers = <<IdleReviewer(UpdatedData(FormA))>>
  /\ batch = None
  /\ results = <<>>
  /\ faulted = FALSE
  /\ result = NoResult

NextRace ==
  \/ ProcessDocumentCall
  \/ ProcessDocument
  \/ ProcessDocumentDone
  \/ ReviewerCall
  \/ ReviewerUpdate
  \/ ReviewerStatus
  \/ ReviewerLog

SpecRace == InitRace /\ [][NextRace]_vars

\* the six stored confidences of the document are all 1.0
AllStoredConfidencesFull(id) ==
  \E i \in 1..Len(patients) :
    /\ patients[i].document_id = id
    /\ \A f \in FieldNames : patients[i].fields[f].confidence = 100

\* C25: when process_document and an update_patient_data call on the
\* document it has just created have both finished without a fault, the
\* stored state is consistent: needs_review implies a stored confidence
\* below 0.75, and six stored confidences of 1.0 imply completed.
C25_RaceLeavesConsistentState ==
  (/\ pc = "pd_returned"
   /\ result.success
   /\ reviewers[1].pc = "returned"
   /\ reviewers[1].result = Some(TRUE)
   /\ reviewers[1].document_id = document_id)
    => /\ StatusOf(document_id[1]) = NEEDS_REVIEW
            => HasLowStoredField(document_id[1])
       /\ AllStoredConfidencesFull(document_id[1])
            => StatusOf(document_id[1]) = COMPLETED

\* C26: update_patient_data changes a status to completed only for a
\* document that was stored as needs_review or completed when it was called,
\* never for one stored as failed or processing.
C26_ReviewCompletesOnlyReviewable ==
  (pc \in UpdateSteps \cup {"rt_responded"} /\ COMPLETED \in Range(status_writes))
    => pre_status \in {Some(NEEDS_REVIEW), Some(COMPLETED)}

\* the stored extracted_text of a document is a text that is not empty
HasStoredText(d) == d.extracted_text # None /\ d.extracted_text[1] # <<>>

\* C27: once a document has a non-empty stored extracted_text, every later
\* step leaves that text as it is.
C27_StoredTextIsKept ==
  [][\A id \in DocIds :
       HasStoredText(documents[id])
         => documents'[id].extracted_text = documents[id].extracted_text]_vars

\* DocumentRepository._row_to_document: the Document of a row; patient_data
\* is not among the arguments and keeps its default PatientData()
_row_to_document(row) ==
  [processing_status |-> row.processing_status,
   extracted_text |-> row.extracted_text,
   processing_errors |-> row.processing_errors,
   patient_data |-> EmptyPatientData]

\* DocumentRepository.get_by_id of a stored document
get_by_id(docs, id) == _row_to_document(docs[id])

\* Document.needs_review
Document_needs_review(d) ==
  \/ d.processing_status = NEEDS_REVIEW
  \/ get_low_confidence_fields(d.patient_data) # {}

\* C28: for every stored document, Document.needs_review of the Document
\* that get_by_id returns is true exactly when get_needing_review returns
\* the document in the same store state.
C28_ModelAgreesWithQuery ==
  \A id \in DocIds :
    Document_needs_review(get_by_id(documents, id))
      <=> id \in Range(get_needing_review(documents, patients))

\* the NLP engine faulted in this run: the text has something to extract,
\* yet the field set the extractor returned is the empty one
NlpFaulted ==
  /\ extracted_text # Unbound
  /\ extracted_text[1] # None
  /\ patient_data = Some(EmptyPatientData)
  /\ extract_patient_data(extracted_text[1][1], FALSE) # EmptyPatientData

\* C29: a fault of the NLP engine on a non-empty text does not fail the
\* document: the run never enters the except branch for it, and when no
\* store call raises it returns success=true with six confidences of 0,
\* confidence_score 0.0 and no errors, the stored status being needs_review.
C29_NlpFaultStillSucceeds ==
  /\ (pc = "pd_except" /\ ~faulted)
       => error_message[1].detail \in {NoTextMessage, StatFault}
  /\ (pc = "pd_returned" /\ ~faulted /\ NlpFaulted)
       => /\ result.success
          /\ result.extracted_data # None
          /\ \A f \in FieldNames :
               result.extracted_data[1][f].confidence = 0
          /\ result.confidence_score = Zero
          /\ result.errors = <<>>
          /\ StatusOf(result.document_id) = NEEDS_REVIEW

\* C29 witness: a run whose NLP engine faulted on a text with a name and an
\* email has returned success=true.
C29_Witness ==
  /\ pc = "pd_returned"
  /\ NlpFaulted
  /\ ~faulted
  /\ result.success
  /\ StatusOf(result.document_id) = NEEDS_REVIEW

\* the corrected field sets two handlers may submit
SubmittedSets == {UpdatedData(FormA), UpdatedData(FormB)} \cup CallerSets

\* the text of a readable file and the field set extracted from it
ReviewedText == Join(GoodFile.ocr.lines)

ExtractedSet == extract_patient_data(ReviewedText, FALSE)

\* the store after process_document has processed a readable file, and two
\* handlers about to submit different corrected field sets for the document
InitReviewers ==
  /\ documents = update_status(DocumentRepository_create(<<>>), 1,
                               NEEDS_REVIEW, Some(ReviewedText), None)
  /\ patients = PatientRepository_create(<<>>, 1, ExtractedSet)
  /\ pc = "idle"
  /\ file = NoFile
  /\ document_id = Unbound
  /\ extracted_text = Unbound
  /\ patient_data = Unbound
  /\ error_message = Unbound
  /\ status_writes = <<>>
  /\ write_calls = <<>>
  /\ pre_status = None
  /\ pre_fields = None
  /\ via_route = FALSE
  /\ folder_path = NoFolder
  /\ \E a \in SubmittedSets : \E b \in SubmittedSets \ {a} :
       reviewers = <<IdleReviewer(a), IdleReviewer(b)>>
  /\ batch = None
  /\ results = <<>>
  /\ faulted = FALSE
  /\ result = NoResult

NextReviewers ==
  \/ ReviewerCall
  \/ ReviewerUpdate
  \/ ReviewerStatus
  \/ ReviewerLog

SpecReviewers == InitReviewers /\ [][NextReviewers]_vars

\* the stored field set of document 1 is pd in full
StoredSetIs(pd) == get_by_document_id(patients, 1) = Some(AsStored(pd))

\* the field write of reviewer i has been committed
HasWritten(i) ==
  \/ reviewers[i].pc \in {"up_status", "up_log"}
  \/ reviewers[i].result = Some(TRUE)

\* C30: for two update_patient_data calls on one document with different
\* corrected field sets, in every interleaving of their store writes the
\* stored field set is one of the submitted sets in full once a call has
\* written (the extracted one before), never a mixture; and when both calls
\* have returned true the status is completed.
C30_ConcurrentReviewsDoNotMix ==
  Len(reviewers) = 2
    => /\ \/ StoredSetIs(reviewers[1].patient_data)
          \/ StoredSetIs(reviewers[2].patient_data)
          \/ StoredSetIs(ExtractedSet) /\ ~HasWritten(1) /\ ~HasWritten(2)
       /\ (reviewers[1].result = Some(TRUE) /\ reviewers[2].result = Some(TRUE))
            => /\ StatusOf(1) = COMPLETED
               /\ ~StoredSetIs(ExtractedSet)

\* C30 witness: both calls have returned true, and the stored field set is
\* the one of the first handler although the second handler wrote as well.
C30_Witness ==
  /\ Len(reviewers) = 2
  /\ reviewers[1].result = Some(TRUE)
  /\ reviewers[2].result = Some(TRUE)
  /\ StoredSetIs(reviewers[1].patient_data)
  /\ StatusOf(1) = COMPLETED

====
